---- MODULE Spec2Model ----
(***************************************************************************)
(* The cryptographic core of mlspp: the ciphersuite registry, the HPKE and *)
(* signature key types, the labelled KDF helpers and the TLS/JSON bridge.  *)
(*                                                                         *)
(* src/src/crypto.cpp is translated operation by operation.  The primitive *)
(* library underneath it (hpke::KEM, KDF, AEAD, Digest, Signature), the    *)
(* TLS codec and the declarations of mls/crypto.h are modelled from the    *)
(* specification; the primitives are small arithmetic stand-ins (a prime   *)
(* field Diffie-Hellman group, a rolling hash, a stream cipher with a tag) *)
(* that keep the algebra the operations rely on.                           *)
(***************************************************************************)
EXTENDS Integers, Sequences, FiniteSets, TLC

VARIABLES
  statics,      \* the six function-local statics of CipherSuite::get()
  constructed,  \* history: how many times each static's initializer ran
  called,       \* history: get() has been called
  early,        \* history: some static was initialized by a call of get() on
                \* another ID than its own, none having been made on its own
  scenario,     \* where the caller is: idle, inside one of its scenarios, or
                \* finished with one (it has consumed what the scenario produced)
  key,          \* the key pair the scenario holds
  res,          \* the last operation: its name, its arguments, its outcome
  contexts      \* history: the HPKE contexts the last operation set up, each
                \* as the operation left it when it went out of scope

vars == <<statics, constructed, called, early, scenario, key, res, contexts>>

(***************************************************************************)
(* Bounds of the model.                                                    *)
(***************************************************************************)
\* random scalars drawn by generate_key_pair and by encap: 1..MaxScalar
MaxScalar == 2
\* the history counter of constructions saturates here
CountCap == 2
\* lengths requested from expand_with_label and do_export: up to MaxExpandLen
MaxExpandLen == 2

\* the least length a uint16_t does not hold
LongLength == 65536

(***************************************************************************)
(* Bytes.                                                                  *)
(***************************************************************************)
RECURSIVE IntToBytes(_, _)
\* big-endian encoding of n on len octets
IntToBytes(n, len) ==
  IF len = 0 THEN <<>>
  ELSE Append(IntToBytes(n \div 256, len - 1), n % 256)

RECURSIVE BytesToInt(_)
BytesToInt(b) ==
  IF Len(b) = 0 THEN 0
  ELSE BytesToInt(SubSeq(b, 1, Len(b) - 1)) * 256 + b[Len(b)]

RECURSIVE XorBits(_, _, _)
XorBits(a, b, n) ==
  IF n = 0 THEN 0
  ELSE 2 * XorBits(a \div 2, b \div 2, n - 1) + (((a % 2) + (b % 2)) % 2)

XorBytes(a, b) == [i \in 1..Len(a) |-> XorBits(a[i], b[i], 8)]

\* from_ascii of the string literals the code uses, as octets
Ascii_mls10 == <<109, 108, 115, 49, 48, 32>>

(***************************************************************************)
(* Outcomes: a returned value or a thrown exception.                       *)
(***************************************************************************)
Ok(v) == [ok |-> TRUE, val |-> v, err |-> "none"]
Throw(e) == [ok |-> FALSE, val |-> <<>>, err |-> e]

(***************************************************************************)
(* Ciphersuite IDs.                                                        *)
(***************************************************************************)
all_supported_suites ==
  { "X25519_AES128GCM_SHA256_Ed25519",
    "P256_AES128GCM_SHA256_P256",
    "X25519_CHACHA20POLY1305_SHA256_Ed25519",
    "X448_AES256GCM_SHA512_Ed448",
    "P521_AES256GCM_SHA512_P521",
    "X448_CHACHA20POLY1305_SHA512_Ed448" }

\* an ID value outside the registry, as CipherSuite(ID) accepts any value
SuiteIDs == all_supported_suites \cup {"unknown", "unassigned"}

\* CipherSuite::CipherSuite()
DefaultCipherSuite == "unknown"

tls_signature_scheme(id) ==
  CASE id = "P256_SHA256" -> Ok("ecdsa_secp256r1_sha256")
    [] id = "P384_SHA384" -> Ok("ecdsa_secp384r1_sha384")
    [] id = "P521_SHA512" -> Ok("ecdsa_secp521r1_sha512")
    [] id = "Ed25519" -> Ok("ed25519")
    [] id = "Ed448" -> Ok("ed448")
    [] id = "RSA_SHA256" -> Ok("rsa_pkcs1_sha256")
    [] OTHER -> Throw("InvalidParameterError")

signature_scheme_swapped(id) ==
  CASE id \in { "X25519_AES128GCM_SHA256_Ed25519",
                "X25519_CHACHA20POLY1305_SHA256_Ed25519" } -> Ok("ed25519")
    [] id = "P256_AES128GCM_SHA256_P256" -> Ok("ecdsa_secp256r1_sha256")
    [] id \in { "X448_AES256GCM_SHA512_Ed448",
                "P521_AES256GCM_SHA512_P521" } -> Ok("ed448")
    [] id = "X448_CHACHA20POLY1305_SHA512_Ed448" -> Ok("ecdsa_secp521r1_sha512")
    [] OTHER -> Throw("InvalidParameterError")

signature_scheme(id) ==
  CASE id \in { "X25519_AES128GCM_SHA256_Ed25519",
                "X25519_CHACHA20POLY1305_SHA256_Ed25519" } -> Ok("ed25519")
    [] id = "P256_AES128GCM_SHA256_P256" -> Ok("ecdsa_secp256r1_sha256")
    [] id \in { "X448_AES256GCM_SHA512_Ed448",
                "X448_CHACHA20POLY1305_SHA512_Ed448" } -> Ok("ed448")
    [] id = "P521_AES256GCM_SHA512_P521" -> Ok("ecdsa_secp521r1_sha512")
    [] OTHER -> Throw("InvalidParameterError")

\* CipherSuite::Ciphers{ HPKE(kem, kdf, aead), Digest, Signature }
Ciphers(kem, kdf, aead, digest, sig) ==
  [hpke |-> [kem |-> kem, kdf |-> kdf, aead |-> aead],
   digest |-> digest, sig |-> sig]

\* the initializer of the static declared for each ID
StaticInitializer(id) ==
  CASE id = "X25519_AES128GCM_SHA256_Ed25519" ->
         Ciphers("DHKEM_X25519_SHA256", "HKDF_SHA256", "AES_128_GCM",
                 "SHA256", "Ed25519")
    [] id = "P256_AES128GCM_SHA256_P256" ->
         Ciphers("DHKEM_P256_SHA256", "HKDF_SHA256", "AES_128_GCM",
                 "SHA256", "P256_SHA256")
    [] id = "X25519_CHACHA20POLY1305_SHA256_Ed25519" ->
         Ciphers("DHKEM_X25519_SHA256", "HKDF_SHA256", "CHACHA20_POLY1305",
                 "SHA256", "Ed25519")
    [] id = "X448_AES256GCM_SHA512_Ed448" ->
         Ciphers("DHKEM_X448_SHA512", "HKDF_SHA512", "AES_256_GCM",
                 "SHA512", "Ed448")
    [] id = "P521_AES256GCM_SHA512_P521" ->
         Ciphers("DHKEM_P521_SHA512", "HKDF_SHA512", "AES_256_GCM",
                 "SHA512", "P521_SHA512")
    [] id = "X448_CHACHA20POLY1305_SHA512_Ed448" ->
         Ciphers("DHKEM_X448_SHA512", "HKDF_SHA512", "CHACHA20_POLY1305",
                 "SHA512", "Ed448")

\* a static whose initializer has not run yet
Uninit == [hpke |-> [kem |-> "-", kdf |-> "-", aead |-> "-"],
           digest |-> "-", sig |-> "-"]

(***************************************************************************)
(* CipherSuite::get().  Control passes through the six static declarations *)
(* on every call, before the switch on the ID: each static not yet         *)
(* initialized is initialized there, once for the life of the process.     *)
(***************************************************************************)
\* the statics whose initializers run when control passes their declarations
StaticsToInit_every_call(st) == all_supported_suites

StaticsToInit(st) == {s \in all_supported_suites : st[s] = Uninit}

\* the statics once control has passed the declarations
StaticsAfterGet(st) ==
  [s \in all_supported_suites |->
     IF s \in StaticsToInit(st) THEN StaticInitializer(s) ELSE st[s]]

get_unknown_falls_through(id, st) ==
  CASE id \in all_supported_suites -> Ok(StaticsAfterGet(st)[id])
    [] id = "unknown" ->
         Ok(StaticsAfterGet(st)["X25519_AES128GCM_SHA256_Ed25519"])
    [] OTHER -> Throw("InvalidParameterError")

\* the switch of get(): the reference returned or the exception thrown
get(id, st) ==
  CASE id = "unknown" -> Throw("InvalidParameterError")
    [] id \in all_supported_suites -> Ok(StaticsAfterGet(st)[id])
    [] OTHER -> Throw("InvalidParameterError")

\* the history of a call of get() on id
CountAfterGet(st, cnt) ==
  [s \in all_supported_suites |->
     IF s \in StaticsToInit(st) /\ cnt[s] < CountCap THEN cnt[s] + 1 ELSE cnt[s]]

\* what every operation that reaches get() leaves behind
CallsGet(id) ==
  /\ statics' = StaticsAfterGet(statics)
  /\ constructed' = CountAfterGet(statics, constructed)
  /\ called' = TRUE
  /\ early' = (early \/ \E s \in StaticsToInit(statics) : s # id)

\* CipherSuite::hpke(), sig(), digest(): members of the bundle get() returns
suite_hpke(id, st) == IF get(id, st).ok THEN Ok(get(id, st).val.hpke) ELSE get(id, st)
suite_sig(id, st) == IF get(id, st).ok THEN Ok(get(id, st).val.sig) ELSE get(id, st)
suite_digest(id, st) == IF get(id, st).ok THEN Ok(get(id, st).val.digest) ELSE get(id, st)

(***************************************************************************)
(* The primitive library (hpke::Digest, KDF, KEM, AEAD, HPKE, Signature),  *)
(* from sections 4.C and 4.D of the specification.  Sizes are scaled down: *)
(* SHA256 gives 2 octets, SHA512 gives 3; keys of the 25519 and P-256      *)
(* groups take 1 octet, keys of the 448 and P-521 groups take 2.           *)
(***************************************************************************)
RECURSIVE Fold(_, _)
\* a rolling hash of the octets b from the chaining value h
Fold(b, h) ==
  IF Len(b) = 0 THEN h
  ELSE Fold(Tail(b), (h * 31 + Head(b) + 1) % 251)

Digest_hash_size(d) == IF d = "SHA256" THEN 2 ELSE 3

Digest_hash(d, data) ==
  [j \in 1..Digest_hash_size(d) |-> Fold(data, 17 * j + Digest_hash_size(d))]

Digest_hmac(d, k, data) == Digest_hash(d, <<Len(k)>> \o k \o <<92>> \o data)

KDF_digest(kdf) == IF kdf = "HKDF_SHA256" THEN "SHA256" ELSE "SHA512"

KDF_extract(kdf, salt, ikm) == Digest_hmac(KDF_digest(kdf), salt, ikm)

RECURSIVE ExpandBlocks(_, _, _, _, _, _)
\* the n blocks T(i) | T(i+1) | ... | T(i+n-1) that follow the block Ti, and
\* the last of them; T(j) = HMAC(prk, T(j-1) | info | j).  The blocks are
\* computed by halves, which keeps the nesting of the evaluation at log n.
ExpandBlocks(kdf, prk, info, i, Ti, n) ==
  IF n = 0 THEN [okm |-> <<>>, last |-> Ti]
  ELSE IF n = 1
  THEN LET T == Digest_hmac(KDF_digest(kdf), prk, Ti \o info \o <<i % 256>>)
       IN [okm |-> T, last |-> T]
  ELSE LET h == n \div 2
           a == ExpandBlocks(kdf, prk, info, i, Ti, h)
           b == ExpandBlocks(kdf, prk, info, i + h, a.last, n - h)
       IN [okm |-> a.okm \o b.okm, last |-> b.last]

\* KDF.expand(prk, info, L): the first L octets of T(1) | T(2) | ...
KDF_expand(kdf, prk, info, L) ==
  LET Nh == Digest_hash_size(KDF_digest(kdf))
  IN SubSeq(ExpandBlocks(kdf, prk, info, 1, <<>>, (L + Nh - 1) \div Nh).okm, 1, L)

\* the group of a KEM or of a signature algorithm: modulus p, generator g of
\* the whole multiplicative group, octets n of a serialized key
Group(alg) ==
  CASE alg \in {"DHKEM_X25519_SHA256", "Ed25519"} -> [p |-> 11, g |-> 2, n |-> 1]
    [] alg \in {"DHKEM_P256_SHA256", "P256_SHA256"} -> [p |-> 13, g |-> 2, n |-> 1]
    [] alg \in {"DHKEM_X448_SHA512", "Ed448"} -> [p |-> 19, g |-> 2, n |-> 2]
    [] alg \in {"DHKEM_P521_SHA512", "P521_SHA512"} -> [p |-> 23, g |-> 5, n |-> 2]

AlgDigest(alg) ==
  IF alg \in {"DHKEM_X25519_SHA256", "DHKEM_P256_SHA256", "Ed25519", "P256_SHA256"}
  THEN "SHA256" ELSE "SHA512"

RECURSIVE ModExp(_, _, _)
ModExp(b, e, p) == IF e = 0 THEN 1 ELSE (b * ModExp(b, e - 1, p)) % p

\* PrivateKey::public_key()
public_key(alg, sk) == ModExp(Group(alg).g, sk, Group(alg).p)

\* serialize / serialize_private: fixed-width big-endian
serialize(alg, pk) == IntToBytes(pk, Group(alg).n)
serialize_private(alg, sk) == IntToBytes(sk, Group(alg).n)

\* deserialize / deserialize_private: a key of the group or a failure
deserialize(alg, data) ==
  IF Len(data) = Group(alg).n /\ BytesToInt(data) \in 1..(Group(alg).p - 1)
  THEN Ok(BytesToInt(data)) ELSE Throw("InvalidParameterError")

deserialize_private(alg, data) ==
  IF Len(data) = Group(alg).n /\ BytesToInt(data) \in 1..(Group(alg).p - 1)
  THEN Ok(BytesToInt(data)) ELSE Throw("InvalidParameterError")

\* derive_key_pair(seed): the private scalar
derive_key_pair(alg, seed) ==
  (BytesToInt(Digest_hash(AlgDigest(alg), seed)) % (Group(alg).p - 1)) + 1

KEM_shared(kem, dh, enc, pkRm) ==
  Digest_hash(AlgDigest(kem), serialize(kem, dh) \o enc \o pkRm)

\* KEM.encap(pkR) with the ephemeral scalar e it draws
KEM_encap(kem, pkR, e) ==
  LET enc == serialize(kem, public_key(kem, e))
      dh == ModExp(pkR, e, Group(kem).p)
  IN [enc |-> enc, shared |-> KEM_shared(kem, dh, enc, serialize(kem, pkR))]

\* KEM.decap(enc, skR)
KEM_decap(kem, enc, skR) ==
  LET pkE == deserialize(kem, enc)
  IN IF ~pkE.ok THEN pkE
     ELSE Ok(KEM_shared(kem, ModExp(pkE.val, skR, Group(kem).p), enc,
                        serialize(kem, public_key(kem, skR))))

AEAD_key_size(aead) == IF aead = "AES_128_GCM" THEN 1 ELSE 2

AEAD_tag(aead, k, nonce, aad, body) ==
  Fold(k \o nonce \o <<Len(aad)>> \o aad \o body, Len(aead))

AEAD_stream(aead, k, nonce, i) == Fold(k \o nonce \o <<i>>, Len(aead) + 1)

AEAD_seal(aead, k, nonce, aad, pt) ==
  LET body == [i \in 1..Len(pt) |-> (pt[i] + AEAD_stream(aead, k, nonce, i)) % 256]
  IN body \o <<AEAD_tag(aead, k, nonce, aad, body)>>

\* AEAD.open: the plaintext, or nothing
AEAD_open(aead, k, nonce, aad, ct) ==
  IF Len(ct) = 0 THEN [some |-> FALSE, val |-> <<>>]
  ELSE LET body == SubSeq(ct, 1, Len(ct) - 1)
       IN IF ct[Len(ct)] # AEAD_tag(aead, k, nonce, aad, body)
          THEN [some |-> FALSE, val |-> <<>>]
          ELSE [some |-> TRUE,
                val |-> [i \in 1..Len(body) |->
                           (body[i] + 256 - AEAD_stream(aead, k, nonce, i)) % 256]]

\* KeySchedule(mode_base, shared, info) of RFC 9180: a fresh context
HPKE_key_schedule(hpke, shared, info) ==
  LET d == KDF_digest(hpke.kdf)
      ctx == <<0>> \o Digest_hash(d, info)
      secret == KDF_extract(hpke.kdf, shared, <<>>)
  IN [aead |-> hpke.aead,
      key |-> KDF_expand(hpke.kdf, secret, <<1>> \o ctx, AEAD_key_size(hpke.aead)),
      base_nonce |-> KDF_expand(hpke.kdf, secret, <<2>> \o ctx, 1),
      exporter_secret |-> KDF_expand(hpke.kdf, secret, <<3>> \o ctx, Digest_hash_size(d)),
      seq |-> 0]

HPKE_setup_base_s(hpke, pkR, info, e) ==
  LET kem == KEM_encap(hpke.kem, pkR, e)
  IN [enc |-> kem.enc, ctx |-> HPKE_key_schedule(hpke, kem.shared, info)]

HPKE_setup_base_r(hpke, enc, skR, info) ==
  LET shared == KEM_decap(hpke.kem, enc, skR)
  IN IF ~shared.ok THEN shared ELSE Ok(HPKE_key_schedule(hpke, shared.val, info))

\* the nonce of the context's next seal or open: base_nonce XOR sequence
Context_nonce(ctx) == XorBytes(ctx.base_nonce, IntToBytes(ctx.seq, Len(ctx.base_nonce)))

Context_seal(ctx, aad, pt) == AEAD_seal(ctx.aead, ctx.key, Context_nonce(ctx), aad, pt)

Context_open(ctx, aad, ct) == AEAD_open(ctx.aead, ctx.key, Context_nonce(ctx), aad, ct)

\* IncrementSeq of RFC 9180: the monotonic sequence counter after a seal or
\* an open
Context_increment_seq(ctx) == [ctx EXCEPT !.seq = @ + 1]

RECURSIVE Context_left(_, _)
\* the context ctx after n seals or opens
Context_left(ctx, n) ==
  IF n = 0 THEN ctx ELSE Context_increment_seq(Context_left(ctx, n - 1))

\* the life of a context that was set up as ctx and then sealed or opened on
\* n times: the sequence numbers those uses took, and the counter it is left at
Context_life(ctx, n) ==
  [made |-> ctx,
   used |-> [k \in 1..n |-> Context_left(ctx, k - 1).seq],
   left |-> Context_left(ctx, n).seq]

Context_export(hpke, ctx, label, L) == KDF_expand(hpke.kdf, ctx.exporter_secret, <<4>> \o label, L)

\* Signature.sign and verify: verify accepts exactly what sign produced for
\* the message under the private half of the public key
Signature_sign(sig, msg, sk) == serialize(sig, public_key(sig, sk)) \o msg

Signature_verify(sig, msg, signature, pk) == signature = serialize(sig, pk) \o msg

(***************************************************************************)
(* The TLS codec (section 4.B): integers in network order, vectors behind  *)
(* the MLS variable-length integer.                                        *)
(***************************************************************************)
tls_uint16(n) == <<n \div 256, n % 256>>

tls_varint(n) ==
  CASE n < 64 -> <<n>>
    [] n >= 64 /\ n < 16384 -> <<64 + (n \div 256), n % 256>>
    [] OTHER -> <<128 + (n \div 16777216), (n \div 65536) % 256,
                  (n \div 256) % 256, n % 256>>

tls_opaque(b) == tls_varint(Len(b)) \o b

\* reads one vector off the front of buf: the vector and what follows it
tls_read_opaque(buf) ==
  IF Len(buf) = 0 THEN Throw("TLSDecodeError")
  ELSE LET w == CASE buf[1] < 64 -> 1 [] buf[1] >= 64 /\ buf[1] < 128 -> 2 [] OTHER -> 4
       IN IF buf[1] >= 192 \/ Len(buf) < w THEN Throw("TLSDecodeError")
          ELSE LET n == BytesToInt(<<buf[1] % 64>> \o SubSeq(buf, 2, w))
               IN IF Len(buf) - w < n THEN Throw("TLSDecodeError")
                  ELSE Ok([vec |-> SubSeq(buf, w + 1, w + n),
                           rest |-> SubSeq(buf, w + n + 1, Len(buf))])

\* tls::marshal of HPKEPublicKey and SignaturePublicKey: opaque<V>
PublicKey_marshal(pk) == tls_opaque(pk)

\* tls::get<PublicKey>: one vector and nothing after it
PublicKey_get(buf) ==
  LET r == tls_read_opaque(buf)
  IN IF ~r.ok THEN r
     ELSE IF r.val.rest # <<>> THEN Throw("TLSDecodeError")
     ELSE Ok(r.val.vec)

(***************************************************************************)
(* Key-schedule helpers of CipherSuite.                                    *)
(***************************************************************************)
\* tls::marshal(HKDFLabel{ length, label, context })
HKDFLabel_marshal(length, label, context) ==
  tls_uint16(length) \o tls_opaque(label) \o tls_opaque(context)

\* CipherSuite::secret_size(): the digest's output size
secret_size(id, st) ==
  IF suite_digest(id, st).ok THEN Ok(Digest_hash_size(suite_digest(id, st).val))
  ELSE suite_digest(id, st)

\* what expand_with_label asks of KDF.expand: the encoded HKDFLabel as info,
\* and the length; length16 is the static_cast<uint16_t> of the size_t length
expand_with_label_request(label, context, length) ==
  LET mls_label == Ascii_mls10 \o label
      length16 == length % 65536
      label_bytes == HKDFLabel_marshal(length16, mls_label, context)
  IN [info |-> label_bytes, length |-> length]

expand_with_label_bare_label(id, st, secret, label, context, length) ==
  LET label_bytes == HKDFLabel_marshal(length % 65536, label, context)
      ciphers == get(id, st)
  IN IF ~ciphers.ok THEN ciphers
     ELSE Ok(KDF_expand(ciphers.val.hpke.kdf, secret, label_bytes, length))

expand_with_label(id, st, secret, label, context, length) ==
  LET request == expand_with_label_request(label, context, length)
      ciphers == get(id, st)
  IN IF ~ciphers.ok THEN ciphers
     ELSE Ok(KDF_expand(ciphers.val.hpke.kdf, secret, request.info, request.length))

derive_secret(id, st, secret, label) ==
  LET size == secret_size(id, st)
  IN IF ~size.ok THEN size
     ELSE expand_with_label(id, st, secret, label, <<>>, size.val)

(***************************************************************************)
(* HPKEPublicKey and HPKEPrivateKey.  A public key is its octets; a        *)
(* private key is its octets and its public key.                           *)
(***************************************************************************)
KeyPair(priv_data, pub_data) == [data |-> priv_data, public_key |-> [data |-> pub_data]]

HPKEPublicKey_encrypt_seals_info(id, st, pk, info, aad, pt, e) ==
  LET hpke == suite_hpke(id, st)
      pkR == deserialize(hpke.val.kem, pk.data)
      s == HPKE_setup_base_s(hpke.val, pkR.val, info, e)
  IN IF ~hpke.ok THEN hpke
     ELSE IF ~pkR.ok THEN pkR
     ELSE Ok([kem_output |-> s.enc, ciphertext |-> Context_seal(s.ctx, info, pt)])

\* the contexts encrypt sets up, as its return leaves them: one, sealed on once
HPKEPublicKey_encrypt_contexts(id, st, pk, info, e) ==
  LET hpke == suite_hpke(id, st)
      pkR == deserialize(hpke.val.kem, pk.data)
      s == HPKE_setup_base_s(hpke.val, pkR.val, info, e)
  IN IF ~hpke.ok \/ ~pkR.ok THEN <<>> ELSE <<Context_life(s.ctx, 1)>>

HPKEPublicKey_encrypt_seals_again(id, st, pk, info, aad, pt, e) ==
  LET hpke == suite_hpke(id, st)
      pkR == deserialize(hpke.val.kem, pk.data)
      s == HPKE_setup_base_s(hpke.val, pkR.val, info, e)
  IN IF ~hpke.ok THEN hpke
     ELSE IF ~pkR.ok THEN pkR
     ELSE Ok([kem_output |-> s.enc,
              ciphertext |-> Context_seal(Context_increment_seq(s.ctx), aad, pt)])

\* e: the ephemeral scalar the KEM draws inside setup_base_s
HPKEPublicKey_encrypt(id, st, pk, info, aad, pt, e) ==
  LET hpke == suite_hpke(id, st)
      pkR == deserialize(hpke.val.kem, pk.data)
      s == HPKE_setup_base_s(hpke.val, pkR.val, info, e)
  IN IF ~hpke.ok THEN hpke
     ELSE IF ~pkR.ok THEN pkR
     ELSE Ok([kem_output |-> s.enc, ciphertext |-> Context_seal(s.ctx, aad, pt)])

\* the contexts do_export sets up: one, neither sealed nor opened on
HPKEPublicKey_do_export_contexts(id, st, pk, info, e) ==
  LET hpke == suite_hpke(id, st)
      pkR == deserialize(hpke.val.kem, pk.data)
      s == HPKE_setup_base_s(hpke.val, pkR.val, info, e)
  IN IF ~hpke.ok \/ ~pkR.ok THEN <<>> ELSE <<Context_life(s.ctx, 0)>>

HPKEPublicKey_do_export(id, st, pk, info, label, size, e) ==
  LET hpke == suite_hpke(id, st)
      pkR == deserialize(hpke.val.kem, pk.data)
      s == HPKE_setup_base_s(hpke.val, pkR.val, info, e)
  IN IF ~hpke.ok THEN hpke
     ELSE IF ~pkR.ok THEN pkR
     ELSE Ok([enc |-> s.enc, exported |-> Context_export(hpke.val, s.ctx, label, size)])

\* r: the private scalar generate_key_pair draws
HPKEPrivateKey_generate(id, st, r) ==
  LET hpke == suite_hpke(id, st)
      priv_data == serialize_private(hpke.val.kem, r)
      pub_data == serialize(hpke.val.kem, public_key(hpke.val.kem, r))
  IN IF ~hpke.ok THEN hpke ELSE Ok(KeyPair(priv_data, pub_data))

HPKEPrivateKey_parse_keeps_data(id, st, data) ==
  LET hpke == suite_hpke(id, st)
      priv == deserialize_private(hpke.val.kem, data)
  IN IF ~hpke.ok THEN hpke
     ELSE IF ~priv.ok THEN priv
     ELSE Ok(KeyPair(data, data))

HPKEPrivateKey_parse(id, st, data) ==
  LET hpke == suite_hpke(id, st)
      priv == deserialize_private(hpke.val.kem, data)
      pub_data == serialize(hpke.val.kem, public_key(hpke.val.kem, priv.val))
  IN IF ~hpke.ok THEN hpke
     ELSE IF ~priv.ok THEN priv
     ELSE Ok(KeyPair(data, pub_data))

HPKEPrivateKey_derive(id, st, secret) ==
  LET hpke == suite_hpke(id, st)
      priv == derive_key_pair(hpke.val.kem, secret)
      priv_data == serialize_private(hpke.val.kem, priv)
      pub_data == serialize(hpke.val.kem, public_key(hpke.val.kem, priv))
  IN IF ~hpke.ok THEN hpke ELSE Ok(KeyPair(priv_data, pub_data))

\* the contexts decrypt (uses = 1) and the private key's do_export (uses = 0)
\* set up, as their return or their throw leaves them
HPKEPrivateKey_contexts(id, st, data, info, kem_output, uses) ==
  LET hpke == suite_hpke(id, st)
      skR == deserialize_private(hpke.val.kem, data)
      ctx == HPKE_setup_base_r(hpke.val, kem_output, skR.val, info)
  IN IF ~hpke.ok \/ ~skR.ok \/ ~ctx.ok THEN <<>> ELSE <<Context_life(ctx.val, uses)>>

\* decrypt up to its ctx.open(aad, ct.ciphertext): the optional plaintext
HPKEPrivateKey_decrypt_open(id, st, data, info, aad, ct) ==
  LET hpke == suite_hpke(id, st)
      skR == deserialize_private(hpke.val.kem, data)
      ctx == HPKE_setup_base_r(hpke.val, ct.kem_output, skR.val, info)
  IN IF ~hpke.ok THEN hpke
     ELSE IF ~skR.ok THEN skR
     ELSE IF ~ctx.ok THEN ctx
     ELSE Ok(Context_open(ctx.val, aad, ct.ciphertext))

HPKEPrivateKey_decrypt(id, st, data, info, aad, ct) ==
  LET pt == HPKEPrivateKey_decrypt_open(id, st, data, info, aad, ct)
  IN IF ~pt.ok THEN pt
     ELSE IF ~pt.val.some THEN Throw("InvalidParameterError")
     ELSE Ok(pt.val.val)

HPKEPrivateKey_do_export(id, st, data, info, kem_output, label, size) ==
  LET hpke == suite_hpke(id, st)
      skR == deserialize_private(hpke.val.kem, data)
      ctx == HPKE_setup_base_r(hpke.val, kem_output, skR.val, info)
  IN IF ~hpke.ok THEN hpke
     ELSE IF ~skR.ok THEN skR
     ELSE IF ~ctx.ok THEN ctx
     ELSE Ok(Context_export(hpke.val, ctx.val, label, size))

(***************************************************************************)
(* SignaturePublicKey and SignaturePrivateKey.                             *)
(***************************************************************************)
SignContent_marshal_content_only(label, content) == tls_opaque(content)

\* tls::marshal(SignContent{ label, content })
SignContent_marshal(label, content) == tls_opaque(label) \o tls_opaque(content)

SignaturePublicKey_verify(id, st, pk, label, message, signature) ==
  LET content == SignContent_marshal(label, message)
      sig == suite_sig(id, st)
      pub == deserialize(sig.val, pk.data)
  IN IF ~sig.ok THEN sig
     ELSE IF ~pub.ok THEN pub
     ELSE Ok(Signature_verify(sig.val, content, signature, pub.val))

SignaturePrivateKey_generate(id, st, r) ==
  LET sig == suite_sig(id, st)
      priv_data == serialize_private(sig.val, r)
      pub_data == serialize(sig.val, public_key(sig.val, r))
  IN IF ~sig.ok THEN sig ELSE Ok(KeyPair(priv_data, pub_data))

SignaturePrivateKey_parse(id, st, data) ==
  LET sig == suite_sig(id, st)
      priv == deserialize_private(sig.val, data)
      pub_data == serialize(sig.val, public_key(sig.val, priv.val))
  IN IF ~sig.ok THEN sig
     ELSE IF ~priv.ok THEN priv
     ELSE Ok(KeyPair(data, pub_data))

SignaturePrivateKey_derive(id, st, secret) ==
  LET sig == suite_sig(id, st)
      priv == derive_key_pair(sig.val, secret)
      priv_data == serialize_private(sig.val, priv)
      pub_data == serialize(sig.val, public_key(sig.val, priv))
  IN IF ~sig.ok THEN sig ELSE Ok(KeyPair(priv_data, pub_data))

SignaturePrivateKey_sign_bare_message(id, st, data, label, message) ==
  LET sig == suite_sig(id, st)
      priv == deserialize_private(sig.val, data)
  IN IF ~sig.ok THEN sig
     ELSE IF ~priv.ok THEN priv
     ELSE Ok(Signature_sign(sig.val, message, priv.val))

SignaturePrivateKey_sign(id, st, data, label, message) ==
  LET content == SignContent_marshal(label, message)
      sig == suite_sig(id, st)
      priv == deserialize_private(sig.val, data)
  IN IF ~sig.ok THEN sig
     ELSE IF ~priv.ok THEN priv
     ELSE Ok(Signature_sign(sig.val, content, priv.val))

(***************************************************************************)
(* The JSON bridge of the TLS-serializable types: a JSON string of hex     *)
(* digits, here the digits' values.                                        *)
(***************************************************************************)
RECURSIVE to_hex(_)
to_hex(b) ==
  IF Len(b) = 0 THEN <<>>
  ELSE <<Head(b) \div 16, Head(b) % 16>> \o to_hex(Tail(b))

RECURSIVE HexPairs(_)
HexPairs(h) ==
  IF Len(h) = 0 THEN <<>>
  ELSE <<h[1] * 16 + h[2]>> \o HexPairs(SubSeq(h, 3, Len(h)))

from_hex(h) ==
  IF Len(h) % 2 = 1 \/ \E i \in 1..Len(h) : h[i] \notin 0..15
  THEN Throw("HexDecodeError") ELSE Ok(HexPairs(h))

tls_serializer_to_json_unframed(v) == to_hex(v.data)

\* tls_serializer<PublicKey>::to_json
tls_serializer_to_json(v) == to_hex(PublicKey_marshal(v.data))

\* tls_serializer<PublicKey>::from_json
tls_serializer_from_json(j) ==
  LET b == from_hex(j)
      v == PublicKey_get(b.val)
  IN IF ~b.ok THEN b
     ELSE IF ~v.ok THEN v
     ELSE Ok([data |-> v.val])

(***************************************************************************)
(* The state machine: one process, whose caller runs scenarios one after   *)
(* another (a registry scenario, and the HPKE and signature scenarios of   *)
(* test/crypto.cpp); the statics of get() live as long as the process.  A  *)
(* key scenario makes keys and uses them; it finishes when it has given an *)
(* output back to the key: decrypted a ciphertext, verified a signature,   *)
(* exported at the receiver or decoded a serialized public key.            *)
(***************************************************************************)
NoKey == [kind |-> "none", suite |-> DefaultCipherSuite, data |-> <<>>,
          public_key |-> [data |-> <<>>]]

Held(kind, id, pair) ==
  [kind |-> kind, suite |-> id, data |-> pair.data, public_key |-> pair.public_key]

\* the record of an operation; from: the earlier record its input came from
Did(op, id, in, out, from) ==
  [op |-> op, suite |-> id, in |-> in, out |-> out, from |-> from]

Done(op, id, in, out) == Did(op, id, in, out, <<>>)

Fresh == Done("init", DefaultCipherSuite, <<>>, Ok(<<>>))

B2N(b) == IF b THEN 1 ELSE 0

\* the inputs the caller draws from
Secrets == {<<1, 2>>}
Labels == {<<>>, <<97>>}
Contexts == {<<>>, <<9>>}
SignatureIDs == {"P256_SHA256", "P384_SHA384", "P521_SHA512", "Ed25519",
                 "Ed448", "RSA_SHA256", "unknown"}
Seeds == {<<0, 1, 2, 3>>}
PrivateInputs == {<<0>>, <<0, 2>>}
Infos == {<<>>, <<1>>}
Aads == {<<>>, <<2>>}
Plaintexts == {<<>>, <<7, 250>>}
ExportLabel == <<101>>
SignLabels == {<<1>>, <<1, 2>>}
Messages == {<<>>, <<2>>}

FlipLast(b) == IF Len(b) = 0 THEN <<0>> ELSE [b EXCEPT ![Len(b)] = (b[Len(b)] + 1) % 256]

\* a ciphertext as it may arrive: intact, its tag or its kem_output damaged
Damage == {"intact", "tag", "kem_output"}
Arrived(ct, how) ==
  CASE how = "intact" -> ct
    [] how = "tag" -> [ct EXCEPT !.ciphertext = FlipLast(ct.ciphertext)]
    [] how = "kem_output" -> [ct EXCEPT !.kem_output = <<>>]

\* a JSON string as it may arrive: intact, a byte more, a digit or a byte less
JsonDamage == {"intact", "longer", "odd", "shorter"}
ArrivedJson(j, how) ==
  CASE how = "intact" -> j
    [] how = "longer" -> j \o <<0, 0>>
    [] how = "odd" -> Tail(j)
    [] how = "shorter" -> SubSeq(j, 1, Len(j) - 2)

\* another supported suite: the one with the same KEM where there is one
Partner(id) ==
  CASE id = "X25519_AES128GCM_SHA256_Ed25519" -> "X25519_CHACHA20POLY1305_SHA256_Ed25519"
    [] id = "X25519_CHACHA20POLY1305_SHA256_Ed25519" -> "X25519_AES128GCM_SHA256_Ed25519"
    [] id = "X448_AES256GCM_SHA512_Ed448" -> "X448_CHACHA20POLY1305_SHA512_Ed448"
    [] id = "X448_CHACHA20POLY1305_SHA512_Ed448" -> "X448_AES256GCM_SHA512_Ed448"
    [] id = "P256_AES128GCM_SHA256_P256" -> "P521_AES256GCM_SHA512_P521"
    [] id = "P521_AES256GCM_SHA512_P521" -> "P256_AES128GCM_SHA256_P256"
    [] OTHER -> id

\* the suites the caller passes with a key: the suite the key was made under,
\* another supported suite, and the two IDs outside the registry
SuitesFor(k) == {k.suite, Partner(k.suite)} \cup (SuiteIDs \ all_supported_suites)

Init ==
  /\ statics = [s \in all_supported_suites |-> Uninit]
  /\ constructed = [s \in all_supported_suites |-> 0]
  /\ called = FALSE
  /\ early = FALSE
  /\ scenario = "idle"
  /\ key = NoKey
  /\ res = Fresh
  /\ contexts = <<>>

Begin(sc) ==
  /\ scenario = "idle"
  /\ scenario' = sc
  /\ UNCHANGED <<statics, constructed, called, early, key, res, contexts>>

End ==
  /\ scenario # "idle"
  /\ scenario' = "idle"
  /\ key' = NoKey
  /\ res' = Fresh
  /\ contexts' = <<>>
  /\ UNCHANGED <<statics, constructed, called, early>>

(* ---- the registry scenario ---- *)
Get(id) ==
  /\ scenario = "registry"
  /\ res' = Done("get", id, <<>>, get(id, statics))
  /\ contexts' = <<>>
  /\ CallsGet(id)
  /\ UNCHANGED <<scenario, key>>

SignatureScheme(id) ==
  /\ scenario = "registry"
  /\ res' = Done("signature_scheme", id, <<>>, signature_scheme(id))
  /\ contexts' = <<>>
  /\ UNCHANGED <<statics, constructed, called, early, scenario, key>>

TlsSignatureScheme(sig) ==
  /\ scenario = "registry"
  /\ res' = Done("tls_signature_scheme", DefaultCipherSuite, [id |-> sig],
                 tls_signature_scheme(sig))
  /\ contexts' = <<>>
  /\ UNCHANGED <<statics, constructed, called, early, scenario, key>>

ExpandWithLabel(id, secret, label, context, length) ==
  /\ scenario = "registry"
  /\ res' = Done("expand_with_label", id,
                 [secret |-> secret, label |-> label, context |-> context,
                  length |-> length],
                 expand_with_label(id, statics, secret, label, context, length))
  /\ contexts' = <<>>
  /\ CallsGet(id)
  /\ UNCHANGED <<scenario, key>>

\* a length beyond 16 bits, asked for first thing in the scenario
ExpandWithLabelLong(id, secret, length) ==
  /\ res = Fresh
  /\ ExpandWithLabel(id, secret, <<>>, <<>>, length)

DeriveSecret(id, secret, label) ==
  /\ scenario = "registry"
  /\ res' = Done("derive_secret", id, [secret |-> secret, label |-> label],
                 derive_secret(id, statics, secret, label))
  /\ contexts' = <<>>
  /\ CallsGet(id)
  /\ UNCHANGED <<scenario, key>>

(* ---- making keys; a call that throws leaves the caller's key as it was ---- *)
MakeKey(kind, op, id, in, out) ==
  /\ scenario = kind
  /\ res' = Did(op, id, in, out, IF op = "parse" /\ in.data = key.data THEN key ELSE NoKey)
  /\ key' = IF out.ok THEN Held(kind, id, out.val) ELSE key
  /\ contexts' = <<>>
  /\ CallsGet(id)
  /\ UNCHANGED scenario

HPKEGenerate(id, r) ==
  MakeKey("hpke", "generate", id, [r |-> r], HPKEPrivateKey_generate(id, statics, r))

HPKEDerive(id, seed) ==
  MakeKey("hpke", "derive", id, [secret |-> seed], HPKEPrivateKey_derive(id, statics, seed))

HPKEParse(id, data) ==
  MakeKey("hpke", "parse", id, [data |-> data], HPKEPrivateKey_parse(id, statics, data))

SigGenerate(id, r) ==
  MakeKey("signature", "generate", id, [r |-> r],
          SignaturePrivateKey_generate(id, statics, r))

SigDerive(id, seed) ==
  MakeKey("signature", "derive", id, [secret |-> seed],
          SignaturePrivateKey_derive(id, statics, seed))

SigParse(id, data) ==
  MakeKey("signature", "parse", id, [data |-> data],
          SignaturePrivateKey_parse(id, statics, data))

(* ---- the HPKE scenario ---- *)
Encrypt(id, info, aad, pt, e) ==
  /\ scenario = "hpke" /\ key.kind = "hpke"
  /\ res' = Done("encrypt", id,
                 [pk |-> key.public_key, info |-> info, aad |-> aad, pt |-> pt],
                 HPKEPublicKey_encrypt(id, statics, key.public_key, info, aad, pt, e))
  /\ contexts' = HPKEPublicKey_encrypt_contexts(id, statics, key.public_key, info, e)
  /\ CallsGet(id)
  /\ UNCHANGED <<scenario, key>>

Decrypt(id, info, aad, how) ==
  /\ scenario = "hpke" /\ key.kind = "hpke"
  /\ res.op = "encrypt" /\ res.out.ok
  /\ B2N(id # res.suite) + B2N(info # res.in.info) + B2N(aad # res.in.aad)
       + B2N(how # "intact") <= 1
  /\ LET ct == Arrived(res.out.val, how)
     IN /\ res' = Did("decrypt", id, [info |-> info, aad |-> aad, ct |-> ct],
                      HPKEPrivateKey_decrypt(id, statics, key.data, info, aad, ct), res)
        /\ contexts' = HPKEPrivateKey_contexts(id, statics, key.data, info,
                                               ct.kem_output, 1)
  /\ CallsGet(id)
  /\ scenario' = "finished"
  /\ UNCHANGED key

ExportS(id, info, size, e) ==
  /\ scenario = "hpke" /\ key.kind = "hpke"
  /\ res' = Done("do_export_s", id,
                 [pk |-> key.public_key, info |-> info, size |-> size],
                 HPKEPublicKey_do_export(id, statics, key.public_key, info,
                                         ExportLabel, size, e))
  /\ contexts' = HPKEPublicKey_do_export_contexts(id, statics, key.public_key, info, e)
  /\ CallsGet(id)
  /\ UNCHANGED <<scenario, key>>

ExportR(id, info) ==
  /\ scenario = "hpke" /\ key.kind = "hpke"
  /\ res.op = "do_export_s" /\ res.out.ok
  /\ B2N(id # res.suite) + B2N(info # res.in.info) <= 1
  /\ res' = Did("do_export_r", id, [info |-> info],
                HPKEPrivateKey_do_export(id, statics, key.data, info,
                                         res.out.val.enc, ExportLabel, res.in.size),
                res)
  /\ contexts' = HPKEPrivateKey_contexts(id, statics, key.data, info,
                                         res.out.val.enc, 0)
  /\ CallsGet(id)
  /\ scenario' = "finished"
  /\ UNCHANGED key

(* ---- the signature scenario ---- *)
Sign(id, label, message) ==
  /\ scenario = "signature" /\ key.kind = "signature"
  /\ res' = Done("sign", id, [label |-> label, message |-> message],
                 SignaturePrivateKey_sign(id, statics, key.data, label, message))
  /\ contexts' = <<>>
  /\ CallsGet(id)
  /\ UNCHANGED <<scenario, key>>

Verify(id, label, message, damaged) ==
  /\ scenario = "signature" /\ key.kind = "signature"
  /\ res.op = "sign" /\ res.out.ok
  /\ B2N(id # res.suite) + B2N(damaged)
       + B2N(<<label, message>> # <<res.in.label, res.in.message>>) <= 1
  /\ LET signature == IF damaged THEN FlipLast(res.out.val) ELSE res.out.val
     IN res' = Did("verify", id,
                   [label |-> label, message |-> message, signature |-> signature],
                   SignaturePublicKey_verify(id, statics, key.public_key, label,
                                             message, signature),
                   res)
  /\ contexts' = <<>>
  /\ CallsGet(id)
  /\ scenario' = "finished"
  /\ UNCHANGED key

(* ---- serialization of the public key, in either key scenario ---- *)
Rebuild ==
  /\ scenario \in {"hpke", "signature"} /\ key.kind # "none"
  /\ res' = Done("rebuild", key.suite, [pk |-> key.public_key],
                 Ok([data |-> key.public_key.data]))
  /\ contexts' = <<>>
  /\ UNCHANGED <<statics, constructed, called, early, scenario, key>>

ToJson ==
  /\ scenario \in {"hpke", "signature"} /\ key.kind # "none"
  /\ res' = Done("to_json", key.suite, [pk |-> key.public_key],
                 Ok(tls_serializer_to_json(key.public_key)))
  /\ contexts' = <<>>
  /\ UNCHANGED <<statics, constructed, called, early, scenario, key>>

FromJson(how) ==
  /\ scenario \in {"hpke", "signature"} /\ res.op = "to_json"
  /\ LET j == ArrivedJson(res.out.val, how)
     IN res' = Did("from_json", res.suite, [j |-> j], tls_serializer_from_json(j), res)
  /\ contexts' = <<>>
  /\ scenario' = "finished"
  /\ UNCHANGED <<statics, constructed, called, early, key>>

Next ==
  \/ \E sc \in {"registry", "hpke", "signature"} : Begin(sc)
  \/ End
  \/ \E id \in SuiteIDs : Get(id)
  \/ \E id \in SuiteIDs : SignatureScheme(id)
  \/ \E sig \in SignatureIDs : TlsSignatureScheme(sig)
  \/ \E id \in SuiteIDs, secret \in Secrets, label \in Labels,
        context \in Contexts, length \in 0..MaxExpandLen :
       ExpandWithLabel(id, secret, label, context, length)
  \/ \E secret \in Secrets, length \in {LongLength} :
       ExpandWithLabelLong("X25519_AES128GCM_SHA256_Ed25519", secret, length)
  \/ \E id \in SuiteIDs, secret \in Secrets, label \in Labels :
       DeriveSecret(id, secret, label)
  \/ \E id \in SuiteIDs, r \in 1..MaxScalar : HPKEGenerate(id, r)
  \/ \E id \in SuiteIDs, seed \in Seeds : HPKEDerive(id, seed)
  \/ \E id \in SuiteIDs, data \in PrivateInputs \cup {key.data} : HPKEParse(id, data)
  \/ \E id \in SuitesFor(key), info \in Infos, aad \in Aads, pt \in Plaintexts,
        e \in 1..MaxScalar : Encrypt(id, info, aad, pt, e)
  \/ \E id \in SuitesFor(key), info \in Infos, aad \in Aads, how \in Damage :
       Decrypt(id, info, aad, how)
  \/ \E id \in SuitesFor(key), info \in Infos, size \in {MaxExpandLen}, e \in 1..MaxScalar :
       ExportS(id, info, size, e)
  \/ \E id \in SuitesFor(key), info \in Infos : ExportR(id, info)
  \/ \E id \in SuiteIDs, r \in 1..MaxScalar : SigGenerate(id, r)
  \/ \E id \in SuiteIDs, seed \in Seeds : SigDerive(id, seed)
  \/ \E id \in SuiteIDs, data \in PrivateInputs \cup {key.data} : SigParse(id, data)
  \/ \E id \in SuitesFor(key), label \in SignLabels, message \in Messages :
       Sign(id, label, message)
  \/ \E id \in SuitesFor(key), label \in SignLabels, message \in Messages,
        damaged \in BOOLEAN : Verify(id, label, message, damaged)
  \/ Rebuild
  \/ ToJson
  \/ \E how \in JsonDamage : FromJson(how)

Spec == Init /\ [][Next]_vars

(***************************************************************************)
(* Properties.                                                             *)
(***************************************************************************)
MakingOps == {"generate", "derive", "parse"}

\* the decrypt just made was given what an encrypt to the held key's public
\* key produced, with the suite, info and aad of that encrypt, and the key
\* was made under that suite, a supported one
DecryptsOwnEncrypt ==
  /\ res.op = "decrypt"
  /\ res.suite \in all_supported_suites
  /\ key.suite = res.suite
  /\ res.from.suite = res.suite
  /\ res.from.in.pk = key.public_key
  /\ res.in.info = res.from.in.info
  /\ res.in.aad = res.from.in.aad
  /\ res.in.ct = res.from.out.val

\* C1: under every supported suite, decrypting with a key pair what encrypt
\* made for its public key, with the same info and aad, returns exactly the
\* plaintext that was encrypted.
C1_HPKERoundTrip == DecryptsOwnEncrypt => res.out = Ok(res.from.in.pt)

C1_Witness ==
  /\ DecryptsOwnEncrypt
  /\ res.from.in.pt = <<7, 250>>
  /\ res.in.info = <<1>> /\ res.in.aad = <<>>
  /\ res.out.ok

\* the decrypt just made reached the AEAD open, which yielded no plaintext
OpenYieldedNothing ==
  /\ res.op = "decrypt"
  /\ LET pt == HPKEPrivateKey_decrypt_open(res.suite, statics, key.data,
                                           res.in.info, res.in.aad, res.in.ct)
     IN pt.ok /\ ~pt.val.some

\* C2: when the AEAD open inside decrypt yields no plaintext, decrypt returns
\* no plaintext and fails with HPKEDecryptionError, a kind of its own.
C2_DecryptionError == OpenYieldedNothing => res.out = Throw("HPKEDecryptionError")

\* the verify just made was given what sign under the held key produced, with
\* the suite of that sign, a supported one the key was made under
VerifiesOwnSignature ==
  /\ res.op = "verify"
  /\ res.suite \in all_supported_suites
  /\ key.suite = res.suite
  /\ res.from.suite = res.suite
  /\ res.in.signature = res.from.out.val

\* C3: under every supported suite, a signature made by a key pair over a
\* label and a message verifies under its public key, that label and that
\* message.
C3_SignatureRoundTrip ==
  (/\ VerifiesOwnSignature
   /\ res.in.label = res.from.in.label
   /\ res.in.message = res.from.in.message) => res.out = Ok(TRUE)

C3_Witness ==
  /\ VerifiesOwnSignature
  /\ res.in.label = <<1, 2>> /\ res.from.in.label = <<1, 2>>
  /\ res.in.message = <<2>> /\ res.from.in.message = <<2>>
  /\ res.out = Ok(TRUE)

\* C4: a signature over (label, message) does not verify under the same key
\* for another (label, message), and the two have different SignContent
\* encodings, also when octets move between the label and the message.
C4_LabelSeparation ==
  (/\ VerifiesOwnSignature
   /\ <<res.in.label, res.in.message>> # <<res.from.in.label, res.from.in.message>>)
  => /\ res.out = Ok(FALSE)
     /\ SignContent_marshal(res.in.label, res.in.message)
          # SignContent_marshal(res.from.in.label, res.from.in.message)

\* the label <<1>> with the message <<2>> against <<1, 2>> with the empty one
C4_Witness ==
  /\ VerifiesOwnSignature
  /\ res.from.in.label = <<1>> /\ res.from.in.message = <<2>>
  /\ res.in.label = <<1, 2>> /\ res.in.message = <<>>
  /\ res.out = Ok(FALSE)

SuiteOps == {"get", "signature_scheme", "expand_with_label", "derive_secret",
             "generate", "derive", "parse", "encrypt", "decrypt",
             "do_export_s", "do_export_r", "sign", "verify"}

\* C5: every operation given the unknown suite throws InvalidParameterError
\* and returns nothing; a key-making one leaves no key behind.
C5_UnknownFails ==
  (res.op \in SuiteOps /\ res.suite = DefaultCipherSuite)
  => /\ res.out = Throw("InvalidParameterError")
     /\ key.suite # DefaultCipherSuite \/ key = NoKey

C5_Witness ==
  /\ res.op = "decrypt" /\ res.suite = DefaultCipherSuite
  /\ key.kind = "hpke" /\ res.from.out.ok
  /\ ~res.out.ok

\* the algorithm whose keys the held key pair is made of
KeyAlg(k) ==
  IF k.kind = "hpke" THEN StaticInitializer(k.suite).hpke.kem
  ELSE StaticInitializer(k.suite).sig

\* C6: the public key of every key pair made by generate, derive or parse is
\* the serialized public key of its private octets under the suite it was
\* made under; parsing a pair's private octets under that suite gives the
\* pair's public key again.
C6_PublicConsistency ==
  /\ key.kind # "none" =>
       /\ key.suite \in all_supported_suites
       /\ deserialize_private(KeyAlg(key), key.data).ok
       /\ key.public_key.data =
            serialize(KeyAlg(key),
                      public_key(KeyAlg(key), deserialize_private(KeyAlg(key), key.data).val))
  /\ (/\ res.op = "parse" /\ res.from.kind # "none"
      /\ res.suite = res.from.suite) =>
       /\ res.out.ok
       /\ res.out.val.data = res.from.data
       /\ res.out.val.public_key = res.from.public_key

C6_Witness ==
  /\ res.op = "parse" /\ res.from.kind = "hpke"
  /\ res.suite = res.from.suite
  /\ res.suite = "P521_AES256GCM_SHA512_P521"
  /\ res.out.ok /\ key.data = res.from.data

\* C7: for each supported suite, signature_scheme() is tls_signature_scheme
\* of the signature algorithm in the bundle get() returns for that suite.
C7_SchemeMatchesBundle ==
  (res.op = "signature_scheme" /\ res.suite \in all_supported_suites)
  => /\ get(res.suite, statics).ok
     /\ res.out = tls_signature_scheme(get(res.suite, statics).val.sig)
     /\ res.out.ok

C7_Witness ==
  /\ res.op = "signature_scheme"
  /\ res.suite = "X448_CHACHA20POLY1305_SHA512_Ed448"
  /\ res.out = Ok("ed448")

\* C8: a public key made under a supported suite survives marshal then get,
\* and the JSON bridge built on them, octet for octet; a public key rebuilt
\* from its octets equals it.
C8_KeySerializationRoundTrip ==
  /\ key.kind # "none" =>
       PublicKey_get(PublicKey_marshal(key.public_key.data)) = Ok(key.public_key.data)
  /\ (res.op = "from_json" /\ res.in.j = res.from.out.val) =>
       /\ res.out = Ok(res.from.in.pk)
       /\ res.out.val.data = key.public_key.data
  /\ res.op = "rebuild" => res.out = Ok(key.public_key)

C8_Witness ==
  /\ res.op = "from_json" /\ res.in.j = res.from.out.val
  /\ key.kind = "signature" /\ Len(key.public_key.data) = 2
  /\ res.out.ok

\* C9: under a supported suite expand_with_label is KDF.expand of the secret
\* and the encoded HKDFLabel{L as u16, "mls10 " + label, context} to L octets:
\* L octets that depend on nothing but the suite and the arguments; and
\* derive_secret is expand_with_label with the empty context and the
\* digest's output size.
C9_ExpandWithLabel ==
  /\ (res.op = "expand_with_label" /\ res.suite \in all_supported_suites) =>
       /\ res.out =
            Ok(KDF_expand(StaticInitializer(res.suite).hpke.kdf, res.in.secret,
                          tls_uint16(res.in.length % 65536)
                            \o tls_opaque(<<109, 108, 115, 49, 48, 32>> \o res.in.label)
                            \o tls_opaque(res.in.context),
                          res.in.length))
       /\ Len(res.out.val) = res.in.length
  /\ (res.op = "derive_secret" /\ res.suite \in all_supported_suites) =>
       /\ res.out = expand_with_label(res.suite, statics, res.in.secret, res.in.label,
                                      <<>>, Digest_hash_size(StaticInitializer(res.suite).digest))
       /\ res.out.ok
       /\ Len(res.out.val) = Digest_hash_size(StaticInitializer(res.suite).digest)

C9_Witness ==
  /\ res.op = "expand_with_label"
  /\ res.suite = "P256_AES128GCM_SHA256_P256"
  /\ res.in.label = <<97>> /\ res.in.context = <<9>>
  /\ res.in.length = MaxExpandLen
  /\ res.out.ok /\ Len(res.out.val) = MaxExpandLen

\* C10 as claimed: each bundle is constructed at most once and not before the
\* first get() on its own ID; a get() on one ID, or on unknown, constructs no
\* bundle of another ID; later calls return the same bundle.
C10_LazyPerID ==
  /\ \A s \in all_supported_suites : constructed[s] <= 1
  /\ ~early
  /\ (res.op = "get" /\ res.out.ok) => res.out.val = statics[res.suite]

\* C10 as amended: each bundle is constructed at most once and not before the
\* first get() of the process, whatever its ID: that call, on a supported ID,
\* on unknown or on an unassigned one, constructs all six bundles; every get()
\* on a supported ID returns the bundle constructed then.
C10_LazyAllAtOnce ==
  /\ \A s \in all_supported_suites :
       /\ constructed[s] <= 1
       /\ constructed[s] = 1 <=> called
       /\ statics[s] = (IF called THEN StaticInitializer(s) ELSE Uninit)
  /\ (res.op = "get" /\ res.suite \in all_supported_suites) =>
       res.out = Ok(statics[res.suite])

C10_Witness ==
  /\ res.op = "get" /\ res.suite = DefaultCipherSuite
  /\ ~res.out.ok
  /\ \A s \in all_supported_suites : constructed[s] = 1 /\ statics[s] # Uninit

\* the operations that set up an HPKE context
ContextOps == {"encrypt", "decrypt", "do_export_s", "do_export_r"}

\* C11: every encrypt and every decrypt sets up a context of its own, fresh
\* (sequence 0), and seals or opens on it exactly once, at sequence 0: the
\* ciphertext is the AEAD seal, and the plaintext the AEAD open, under the
\* context's base_nonce itself.  The context is left at sequence 1 and goes
\* out of scope with the call, so no later call finds it and the counter
\* stays clear of its overflow at 2^64 - 1.  The exports set up a context
\* and use no sequence number; no other operation sets one up.
C11_SingleShotSequence ==
  /\ Len(contexts) <= 1
  /\ \A i \in 1..Len(contexts) :
       /\ contexts[i].made.seq = 0
       /\ \A k \in 1..Len(contexts[i].used) : contexts[i].used[k] = 0
       /\ contexts[i].left = Len(contexts[i].used)
       /\ contexts[i].left <= 1
  /\ res.op \notin ContextOps => contexts = <<>>
  /\ res.op \in {"do_export_s", "do_export_r"} =>
       /\ res.out.ok => Len(contexts) = 1
       /\ \A i \in 1..Len(contexts) : contexts[i].used = <<>>
  /\ res.op \in {"encrypt", "decrypt"} =>
       /\ res.out.ok => Len(contexts) = 1
       /\ \A i \in 1..Len(contexts) : contexts[i].used = <<0>>
  /\ (res.op = "encrypt" /\ res.out.ok) =>
       res.out.val.ciphertext =
         AEAD_seal(contexts[1].made.aead, contexts[1].made.key,
                   contexts[1].made.base_nonce, res.in.aad, res.in.pt)
  /\ (res.op = "decrypt" /\ Len(contexts) = 1) =>
       LET pt == AEAD_open(contexts[1].made.aead, contexts[1].made.key,
                           contexts[1].made.base_nonce, res.in.aad,
                           res.in.ct.ciphertext)
       IN IF pt.some THEN res.out = Ok(pt.val) ELSE ~res.out.ok

C11_Witness ==
  /\ res.op = "decrypt" /\ res.out.ok
  /\ res.from.op = "encrypt" /\ res.out.val = res.from.in.pt /\ res.out.val # <<>>
  /\ Len(contexts) = 1
  /\ contexts[1].used = <<0>> /\ contexts[1].left = 1

\* C12: in expand_with_label the 16-bit length field encoded in the HKDFLabel
\* equals the number of octets requested from KDF.expand, which is the
\* number of octets that come back, whatever the length asked for.
C12_LengthFieldIsLength ==
  (res.op = "expand_with_label" /\ res.out.ok) =>
    LET request == expand_with_label_request(res.in.label, res.in.context, res.in.length)
    IN /\ request.length = Len(res.out.val)
       /\ BytesToInt(SubSeq(request.info, 1, 2)) = request.length

====
